---- MODULE Spec2Model ----
(***************************************************************************)
(* A model of expression_atlas.py: the run of main() from the file checks  *)
(* to the data handed to the HTML writer, and detect_delimiter.            *)
(*                                                                         *)
(* Text.  A line or a field is a sequence of atoms.  An atom is a piece of *)
(* text: one of the separator characters TAB, COMMA, SEMI, or a piece that *)
(* holds no separator and no whitespace (a letter such as "G", or a token  *)
(* such as "0.125").  str.strip, str.split, str.count, `in`, str.lower and *)
(* float() are modelled on this representation.                            *)
(*                                                                         *)
(* Numbers.  A parsed cell is a record [t, v]: t = "num" with v the value  *)
(* in eighths (all the numeric tokens of the model are multiples of 1/8,   *)
(* which a binary float holds exactly), t = "nan", t = "inf", or t =       *)
(* "None" (Python's None).  A rounded output is a record with v in         *)
(* hundredths.                                                             *)
(***************************************************************************)
EXTENDS Integers, Sequences, FiniteSets, TLC

VARIABLES
    matrix_exists,    \* os.path.isfile(matrix_file)
    genes_exists,     \* os.path.isfile(genes_file)
    annot_arg,        \* "none": no --annot; "missing": no such file; "present"
    genes_file,       \* the lines of the gene list file
    matrix_file,      \* the lines of the matrix file (header first)
    annot_lines,      \* the lines of the annotation file (header first)
    pc,               \* position of main()
    annot_file,       \* TRUE while annot_file is not None
    gene_list,
    gene_set,
    group_to_indices,
    group_order,
    expression_data,
    delim,
    mpos,             \* number of lines of the matrix file consumed
    annot_headers,
    annot_data,
    gene_col,
    apos,             \* number of lines of the annotation file consumed
    line_series,
    heatmap_series,
    dot_data,
    table_rows,       \* the <tbody> rows written at lines 211-227
    dline,            \* a line handed to detect_delimiter on its own
    dresult           \* what detect_delimiter returned for dline

vars == <<matrix_exists, genes_exists, annot_arg, genes_file, matrix_file,
          annot_lines, pc, annot_file, gene_list, gene_set, group_to_indices,
          group_order, expression_data, delim, mpos, annot_headers, annot_data,
          gene_col, apos, line_series, heatmap_series, dot_data, table_rows,
          dline, dresult>>

\* ------------------------------------------------------------------ text

TAB == "\t"
COMMA == ","
SEMI == ";"
SPACE == " "

\* The characters str.strip() removes.
Whitespace == {TAB, SPACE}

SeqsUpTo(S, n) == UNION {[1..k -> S] : k \in 0..n}

Range(s) == {s[i] : i \in 1..Len(s)}

\* line.count(c)
Count(line, c) == Cardinality({i \in 1..Len(line) : line[i] = c})

\* Mutant: a tie between tabs and commas no longer goes to the tab.
detect_delimiter_strict(line) ==
    IF TAB \in Range(line) /\ Count(line, TAB) > Count(line, COMMA) THEN TAB
    ELSE IF SEMI \in Range(line) THEN SEMI
    ELSE IF COMMA \in Range(line) THEN COMMA
    ELSE TAB

detect_delimiter(line) ==
    IF TAB \in Range(line) /\ Count(line, TAB) >= Count(line, COMMA) THEN TAB
    ELSE IF SEMI \in Range(line) THEN SEMI
    ELSE IF COMMA \in Range(line) THEN COMMA
    ELSE TAB

\* str.strip(): drop the leading and the trailing whitespace.
strip(s) ==
    LET keep == {i \in 1..Len(s) : s[i] \notin Whitespace}
    IN  IF keep = {} THEN <<>>
        ELSE LET lo == CHOOSE i \in keep : \A j \in keep : i <= j
                 hi == CHOOSE i \in keep : \A j \in keep : j <= i
             IN  SubSeq(s, lo, hi)

\* str.split(d): one field more than there are separators; "" gives [""].
RECURSIVE split(_, _)
split(s, d) ==
    IF d \notin Range(s) THEN <<s>>
    ELSE LET i == CHOOSE k \in 1..Len(s) :
                      s[k] = d /\ \A j \in 1..(k - 1) : s[j] # d
         IN  <<SubSeq(s, 1, i - 1)>> \o split(SubSeq(s, i + 1, Len(s)), d)

\* str.lower(), on the letters the model uses.
LowerChar(c) ==
    CASE c = "G" -> "g"
      [] c = "E" -> "e"
      [] c = "N" -> "n"
      [] c = "I" -> "i"
      [] c = "D" -> "d"
      [] OTHER -> c

lower(s) == [i \in 1..Len(s) |-> LowerChar(s[i])]

\* sub in s
Contains(s, sub) ==
    \E i \in 0..(Len(s) - Len(sub)) :
        \A j \in 1..Len(sub) : s[i + j] = sub[j]

\* --------------------------------------------------------------- numbers

Num(e) == [t |-> "num", v |-> e]
NaN == [t |-> "nan", v |-> 0]
Inf == [t |-> "inf", v |-> 0]
None == [t |-> "None", v |-> 0]

\* The tokens float() accepts, with their values in eighths.
FloatValue(tok) ==
    CASE tok = "0" -> Num(0)
      [] tok = "0.125" -> Num(1)
      [] tok = "1" -> Num(8)
      [] tok = "2" -> Num(16)
      [] tok = "4" -> Num(32)
      [] tok = "-1" -> Num(-8)
      [] tok = "nan" -> NaN
      [] tok = "inf" -> Inf
      [] OTHER -> None

\* try: float(x) except: None.  float() ignores surrounding whitespace and
\* raises ValueError on anything that is not one number.
pyfloat(x) ==
    LET t == strip(x)
    IN  IF Len(t) = 1 THEN FloatValue(t[1]) ELSE None

\* round(num/den, 0) to the nearest integer, ties to even (den > 0).
RoundHalfEven(num, den) ==
    LET q == num \div den
        r == num - q * den
    IN  IF 2 * r < den THEN q
        ELSE IF 2 * r > den THEN q + 1
        ELSE IF q % 2 = 0 THEN q ELSE q + 1

\* round(val, 2) of a float: hundredths from eighths.
round2(val) ==
    IF val.t = "num" THEN Num(RoundHalfEven(100 * val.v, 8)) ELSE val

RECURSIVE SumV(_)
SumV(v) == IF v = <<>> THEN 0 ELSE v[1].v + SumV(Tail(v))

\* round(sum(v) / len(v), 2) for a non-empty list of floats.
MeanOf(v) ==
    IF \E i \in 1..Len(v) : v[i].t = "nan" THEN NaN
    ELSE IF \E i \in 1..Len(v) : v[i].t = "inf" THEN Inf
    ELSE Num(RoundHalfEven(100 * SumV(v), 8 * Len(v)))

\* ------------------------------------------------------------- the data

\* A dict as a function; dict[k] = v.
EmptyMap == [x \in {} |-> <<>>]

Put(m, k, v) == [x \in DOMAIN m \cup {k} |-> IF x = k THEN v ELSE m[x]]

\* [l.strip() for l in f if l.strip()]
StripLines(lines) ==
    SelectSeq([i \in 1..Len(lines) |-> strip(lines[i])], LAMBDA l : l # <<>>)

\* Mutant: a repeated label opens its group again, losing its columns.
AssignColumn_reopen(st, i, s) ==
    [order |-> Append(st.order, s), idx |-> Put(st.idx, s, <<i>>)]

\* One turn of the loop over enumerate(samples): column i carries label s.
AssignColumn(st, i, s) ==
    LET opened == IF s \notin DOMAIN st.idx
                     THEN [order |-> Append(st.order, s),
                           idx |-> Put(st.idx, s, <<>>)]
                     ELSE st
    IN  [order |-> opened.order,
         idx |-> Put(opened.idx, s, Append(opened.idx[s], i))]

RECURSIVE AssignFrom(_, _, _)
AssignFrom(samples, i, st) ==
    IF i = Len(samples) THEN st
    ELSE AssignFrom(samples, i + 1, AssignColumn(st, i, samples[i + 1]))

\* group_order and group_to_indices for the sample labels of the header.
AssignGroups(samples) ==
    AssignFrom(samples, 0, [order |-> <<>>, idx |-> EmptyMap])

\* vals of a data line: one entry per field after the first.
ParseRow(parts) == [i \in 1..(Len(parts) - 1) |-> pyfloat(parts[i + 1])]

\* Mutant: the stop test counts the gene list, not the gene set.
Satisfied_list(ed, gs, gl) == Cardinality(DOMAIN ed) = Len(gl)

\* len(expression_data) == len(gene_set)
Satisfied(ed, gs, gl) == Cardinality(DOMAIN ed) = Cardinality(gs)

\* i < len(vals) and vals[i] is not None   (i counts from 0)
Present(vals, i) == i < Len(vals) /\ vals[i + 1] # None

\* Mutant: a missing cell of the row enters the mean as 0.
GroupValues_zero(vals, idxs) ==
    LET keep == SelectSeq(idxs, LAMBDA i : i < Len(vals))
    IN  [k \in 1..Len(keep) |->
            IF vals[keep[k] + 1] = None THEN Num(0) ELSE vals[keep[k] + 1]]

\* v = [vals[i] for i in idxs if i < len(vals) and vals[i] is not None]
GroupValues(vals, idxs) ==
    LET keep == SelectSeq(idxs, LAMBDA i : Present(vals, i))
    IN  [k \in 1..Len(keep) |-> vals[keep[k] + 1]]

\* m = round(sum(v) / len(v), 2) if v else None
GroupMean(vals, idxs) ==
    LET v == GroupValues(vals, idxs)
    IN  IF v # <<>> THEN MeanOf(v) ELSE None

\* The genes of gene_list the loops at 103, 122 and 211 do not skip.
GenesWithData(gl, ed) == SelectSeq(gl, LAMBDA g : g \in DOMAIN ed)

\* Mutant: the heatmap keeps the order of the line series.
Reversed_not(s) == s

\* list.reverse()
Reversed(s) == [i \in 1..Len(s) |-> s[Len(s) + 1 - i]]

MeansOf(vals, order, gti) ==
    [k \in 1..Len(order) |-> GroupMean(vals, gti[order[k]])]

LineSeries(gl, ed, order, gti) ==
    LET gs == GenesWithData(gl, ed)
    IN  [n \in 1..Len(gs) |->
            [name |-> gs[n], data |-> MeansOf(ed[gs[n]], order, gti)]]

HeatmapSeries(gl, ed, order, gti) ==
    LET gs == GenesWithData(gl, ed)
    IN  Reversed([n \in 1..Len(gs) |->
            [name |-> gs[n],
             data |-> LET m == MeansOf(ed[gs[n]], order, gti)
                      IN  [k \in 1..Len(order) |->
                              [x |-> order[k], y |-> m[k]]]]])

\* max(len(v) for v in group_to_indices.values()), for a non-empty dict.
MaxReps(gti) ==
    LET sizes == {Len(gti[s]) : s \in DOMAIN gti}
    IN  CHOOSE n \in sizes : \A k \in sizes : k <= n

\* r < len(idxs) and idxs[r] < len(vals) and vals[idxs[r]] is not None
HasPoint(vals, idxs, r) == r < Len(idxs) /\ Present(vals, idxs[r + 1])

\* dpts of replicate slot r (r counts from 0).
RepPoints(vals, order, gti, r) ==
    LET gs == SelectSeq(order, LAMBDA s : HasPoint(vals, gti[s], r))
    IN  [k \in 1..Len(gs) |->
            [x |-> gs[k], y |-> round2(vals[gti[gs[k]][r + 1] + 1])]]

\* Mutant: a slot is appended whether or not it has points.
KeepSeries_always(dpts) == TRUE

\* if dpts:
KeepSeries(dpts) == dpts # <<>>

\* ser of one gene: the series "Rep r+1" that have points.
RepSeries(vals, order, gti, max_reps) ==
    SelectSeq([n \in 1..max_reps |->
                  [name |-> <<"Rep", n>>,
                   data |-> RepPoints(vals, order, gti, n - 1)]],
              LAMBDA e : KeepSeries(e.data))

DotData(gl, ed, order, gti) ==
    [g \in Range(GenesWithData(gl, ed)) |->
        RepSeries(ed[g], order, gti, MaxReps(gti))]

IsGeneId(h) ==
    Contains(lower(h), <<"g", "e", "n", "e">>) /\ Contains(lower(h), <<"i", "d">>)

\* Mutant: the loop lacks its break, so the last matching column wins.
GeneColumn_last(hdr) ==
    LET hits == {i \in 0..(Len(hdr) - 1) : IsGeneId(hdr[i + 1])}
    IN  IF hits = {} THEN 0
        ELSE CHOOSE i \in hits : \A j \in hits : j <= i

\* gene_col: the first header field with 'gene' and 'id', else 0.
GeneColumn(hdr) ==
    LET hits == {i \in 0..(Len(hdr) - 1) : IsGeneId(hdr[i + 1])}
    IN  IF hits = {} THEN 0
        ELSE CHOOSE i \in hits : \A j \in hits : i <= j

\* if len(parts) > gene_col: annot_data[parts[gene_col]] = parts
IndexRow(ad, parts, gc) ==
    IF Len(parts) > gc THEN Put(ad, parts[gc + 1], parts) ELSE ad

\* The expression cells of a table row: '' (here None) or round(val, 2).
RowCells(vals, order, gti) ==
    LET cellsOf(s) == [k \in 1..Len(gti[s]) |->
                          LET idx == gti[s][k]
                              val == IF idx < Len(vals) THEN vals[idx + 1] ELSE None
                          IN  IF val # None THEN round2(val) ELSE None]
    IN  [k \in 1..Len(order) |-> cellsOf(order[k])]

\* The annotation cells of a table row, one per header column but gene_col.
AnnCells(g, hdr, ad, gc) ==
    LET ann == IF g \in DOMAIN ad THEN ad[g] ELSE <<>>
        colsKept == SelectSeq([i \in 1..Len(hdr) |-> i - 1], LAMBDA i : i # gc)
    IN  [k \in 1..Len(colsKept) |->
            IF colsKept[k] < Len(ann) THEN ann[colsKept[k] + 1] ELSE <<>>]

TableRows(gl, ed, order, gti, hdr, ad, gc) ==
    LET gs == GenesWithData(gl, ed)
    IN  [n \in 1..Len(gs) |->
            [gene |-> gs[n],
             cells |-> RowCells(ed[gs[n]], order, gti),
             ann |-> IF hdr # <<>> THEN AnnCells(gs[n], hdr, ad, gc) ELSE <<>>]]

\* ------------------------------------------------------------- the run

inputs == <<matrix_exists, genes_exists, annot_arg, genes_file, matrix_file,
            annot_lines>>
genes_vars == <<gene_list, gene_set>>
matrix_vars == <<group_to_indices, group_order, expression_data, delim, mpos>>
annot_vars == <<annot_headers, annot_data, gene_col, apos>>
series_vars == <<line_series, heatmap_series>>
delim_vars == <<dline, dresult>>

\* The state of main() before its first statement, for the input files inp;
\* l is the line kept for detect_delimiter on its own.
Start(inp, l) ==
    /\ matrix_exists = inp.me
    /\ genes_exists = inp.ge
    /\ annot_arg = inp.aa
    /\ genes_file = inp.gf
    /\ matrix_file = inp.mf
    /\ annot_lines = inp.al
    /\ pc = "verify"
    /\ annot_file = (inp.aa # "none")
    /\ gene_list = <<>>
    /\ gene_set = {}
    /\ group_to_indices = EmptyMap
    /\ group_order = <<>>
    /\ expression_data = EmptyMap
    /\ delim = TAB
    /\ mpos = 0
    /\ annot_headers = <<>>
    /\ annot_data = EmptyMap
    /\ gene_col = 0
    /\ apos = 0
    /\ line_series = <<>>
    /\ heatmap_series = <<>>
    /\ dot_data = EmptyMap
    /\ table_rows = <<>>
    /\ dline = l
    /\ dresult = "unset"

\* Lines 36-38: the matrix file is missing; sys.exit(1).
VerifyMatrixMissing ==
    /\ pc = "verify"
    /\ ~matrix_exists
    /\ pc' = "exit1"
    /\ UNCHANGED <<inputs, annot_file, genes_vars, matrix_vars, annot_vars,
                   series_vars, dot_data, table_rows, delim_vars>>

\* Lines 40-42: the gene list file is missing; sys.exit(1).
VerifyGenesMissing ==
    /\ pc = "verify"
    /\ matrix_exists
    /\ ~genes_exists
    /\ pc' = "exit1"
    /\ UNCHANGED <<inputs, annot_file, genes_vars, matrix_vars, annot_vars,
                   series_vars, dot_data, table_rows, delim_vars>>

\* Lines 36-46: both required files exist; a missing annotation file is
\* dropped with a warning.
VerifyOk ==
    /\ pc = "verify"
    /\ matrix_exists
    /\ genes_exists
    /\ annot_file' = (annot_arg = "present")
    /\ pc' = "read_genes"
    /\ UNCHANGED <<inputs, genes_vars, matrix_vars, annot_vars, series_vars,
                   dot_data, table_rows, delim_vars>>

\* Lines 49-51.
ReadGenes ==
    /\ pc = "read_genes"
    /\ gene_list' = StripLines(genes_file)
    /\ gene_set' = Range(StripLines(genes_file))
    /\ pc' = "read_header"
    /\ UNCHANGED <<inputs, annot_file, matrix_vars, annot_vars, series_vars,
                   dot_data, table_rows, delim_vars>>

\* Lines 54-66: the header line (the empty string at end of file) and the
\* assignment of its sample columns to groups.
ReadHeader ==
    /\ pc = "read_header"
    /\ LET header == IF matrix_file = <<>> THEN <<>> ELSE strip(matrix_file[1])
           d == detect_delimiter(header)
           cols == split(header, d)
           samples == Tail(cols)
           st == AssignGroups(samples)
       IN  /\ delim' = d
           /\ group_order' = st.order
           /\ group_to_indices' = st.idx
    /\ expression_data' = EmptyMap
    /\ mpos' = 1
    /\ pc' = "read_lines"
    /\ UNCHANGED <<inputs, annot_file, genes_vars, annot_vars, series_vars,
                   dot_data, table_rows, delim_vars>>

\* Lines 67-79: one turn of `for line in mf`, with its break.
ReadLine ==
    /\ pc = "read_lines"
    /\ mpos < Len(matrix_file)
    /\ LET parts == split(strip(matrix_file[mpos + 1]), delim)
           gene == parts[1]
           ed == Put(expression_data, gene, ParseRow(parts))
       IN  IF gene \in gene_set
              THEN /\ expression_data' = ed
                   /\ pc' = IF Satisfied(ed, gene_set, gene_list)
                               THEN "read_annot" ELSE "read_lines"
              ELSE /\ expression_data' = expression_data
                   /\ pc' = "read_lines"
    /\ mpos' = mpos + 1
    /\ UNCHANGED <<inputs, annot_file, genes_vars, group_to_indices,
                   group_order, delim, annot_vars, series_vars, dot_data,
                   table_rows, delim_vars>>

\* Line 67: the file is exhausted.
EndOfMatrix ==
    /\ pc = "read_lines"
    /\ mpos >= Len(matrix_file)
    /\ pc' = "read_annot"
    /\ UNCHANGED <<inputs, annot_file, genes_vars, matrix_vars, annot_vars,
                   series_vars, dot_data, table_rows, delim_vars>>

\* Lines 82-85: no annotation file.
SkipAnnot ==
    /\ pc = "read_annot"
    /\ ~annot_file
    /\ pc' = "build_series"
    /\ UNCHANGED <<inputs, annot_file, genes_vars, matrix_vars, annot_vars,
                   series_vars, dot_data, table_rows, delim_vars>>

\* Lines 86-94: the annotation header and the gene identifier column.
ReadAnnotHeader ==
    /\ pc = "read_annot"
    /\ annot_file
    /\ LET first == IF annot_lines = <<>> THEN <<>> ELSE strip(annot_lines[1])
           hdr == split(first, detect_delimiter(first))
       IN  /\ annot_headers' = hdr
           /\ gene_col' = GeneColumn(hdr)
    /\ annot_data' = EmptyMap
    /\ apos' = 1
    /\ pc' = "annot_lines"
    /\ UNCHANGED <<inputs, annot_file, genes_vars, matrix_vars, series_vars,
                   dot_data, table_rows, delim_vars>>

\* Lines 95-98: one annotation line, split on the delimiter of that line.
ReadAnnotLine ==
    /\ pc = "annot_lines"
    /\ apos < Len(annot_lines)
    /\ LET line == annot_lines[apos + 1]
           parts == split(strip(line), detect_delimiter(line))
       IN  annot_data' = IndexRow(annot_data, parts, gene_col)
    /\ apos' = apos + 1
    /\ UNCHANGED <<inputs, pc, annot_file, genes_vars, matrix_vars,
                   annot_headers, gene_col, series_vars, dot_data, table_rows,
                   delim_vars>>

\* Line 95: the annotation file is exhausted.
EndOfAnnot ==
    /\ pc = "annot_lines"
    /\ apos >= Len(annot_lines)
    /\ pc' = "build_series"
    /\ UNCHANGED <<inputs, annot_file, genes_vars, matrix_vars, annot_vars,
                   series_vars, dot_data, table_rows, delim_vars>>

\* Lines 101-117.
BuildSeries ==
    /\ pc = "build_series"
    /\ line_series' =
           LineSeries(gene_list, expression_data, group_order, group_to_indices)
    /\ heatmap_series' =
           HeatmapSeries(gene_list, expression_data, group_order, group_to_indices)
    /\ pc' = "build_reps"
    /\ UNCHANGED <<inputs, annot_file, genes_vars, matrix_vars, annot_vars,
                   dot_data, table_rows, delim_vars>>

\* Lines 120-135.
BuildReplicates ==
    /\ pc = "build_reps"
    /\ DOMAIN group_to_indices # {}
    /\ dot_data' =
           DotData(gene_list, expression_data, group_order, group_to_indices)
    /\ pc' = "write"
    /\ UNCHANGED <<inputs, annot_file, genes_vars, matrix_vars, annot_vars,
                   series_vars, table_rows, delim_vars>>

\* Line 120: max() of an empty sequence raises ValueError, which nothing
\* catches: the run ends with a traceback and no report.
BuildReplicatesFail ==
    /\ pc = "build_reps"
    /\ DOMAIN group_to_indices = {}
    /\ pc' = "crashed"
    /\ UNCHANGED <<inputs, annot_file, genes_vars, matrix_vars, annot_vars,
                   series_vars, dot_data, table_rows, delim_vars>>

\* Lines 153-307: the report; its table rows are the data it adds.
WriteOutput ==
    /\ pc = "write"
    /\ table_rows' = TableRows(gene_list, expression_data, group_order,
                               group_to_indices, annot_headers, annot_data,
                               gene_col)
    /\ pc' = "done"
    /\ UNCHANGED <<inputs, annot_file, genes_vars, matrix_vars, annot_vars,
                   series_vars, dot_data, delim_vars>>

Next ==
    \/ VerifyMatrixMissing
    \/ VerifyGenesMissing
    \/ VerifyOk
    \/ ReadGenes
    \/ ReadHeader
    \/ ReadLine
    \/ EndOfMatrix
    \/ SkipAnnot
    \/ ReadAnnotHeader
    \/ ReadAnnotLine
    \/ EndOfAnnot
    \/ BuildSeries
    \/ BuildReplicates
    \/ BuildReplicatesFail
    \/ WriteOutput

\* detect_delimiter(dline), called on its own.
Detect ==
    /\ dresult = "unset"
    /\ dresult' = detect_delimiter(dline)
    /\ UNCHANGED <<inputs, pc, annot_file, genes_vars, matrix_vars, annot_vars,
                   series_vars, dot_data, table_rows, dline>>

NextDelim == Detect

\* ----------------------------------------------------------- the inputs

MaxGenes == 2       \* lines of the gene list file
MaxLines == 3       \* data lines of the matrix file
MaxCols == 3        \* sample columns of the header, cells of a data line
MaxAnnotCols == 2   \* fields of an annotation header or row
MaxAnnotRows == 2   \* data lines of the annotation file
MaxLineLen == 4     \* characters of a line given to detect_delimiter

\* d.join(fields)
RECURSIVE Join(_, _)
Join(fields, d) ==
    IF fields = <<>> THEN <<>>
    ELSE IF Len(fields) = 1 THEN fields[1]
    ELSE fields[1] \o <<d>> \o Join(Tail(fields), d)

In(me, ge, aa, gf, mf, al) ==
    [me |-> me, ge |-> ge, aa |-> aa, gf |-> gf, mf |-> mf, al |-> al]

GA == <<"A">>
GB == <<"B">>
GX == <<"X">>
GeneLabel == <<"g">>
GeneID == <<"G", "e", "n", "e", "I", "D">>

StdGenes == <<GA, GB>>
StdMatrix ==
    << Join(<<GeneLabel, <<"S">>, <<"S">>, <<"T">>>>, TAB),
       Join(<<GA, <<"1">>, <<"2">>, <<"4">>>>, TAB),
       Join(<<GB, <<"0.125">>, <<"NA">>>>, TAB) >>
StdAnnot ==
    << Join(<<GeneID, <<"N">>>>, TAB), Join(<<GA, <<"k">>>>, TAB) >>

\* A few runs that take every branch of main().
Common ==
    { In(FALSE, TRUE, "none", StdGenes, <<>>, <<>>),
      In(TRUE, FALSE, "none", <<>>, StdMatrix, <<>>),
      In(TRUE, TRUE, "missing", StdGenes, StdMatrix, <<>>),
      In(TRUE, TRUE, "present", StdGenes, StdMatrix, StdAnnot),
      In(TRUE, TRUE, "none", StdGenes, <<>>, <<>>) }

\* Gene lists with repeats, blank lines and trailing whitespace; matrices
\* whose genes repeat, with and without sample columns.
GeneLines == {GA, <<"B", SPACE>>, <<>>}
ReadRows ==
    { Join(<<GA, <<"1">>>>, TAB), Join(<<GA, <<"2">>>>, TAB),
      Join(<<GB, <<"1">>>>, TAB), Join(<<GB, <<"2">>>>, TAB),
      Join(<<GX, <<"1">>>>, TAB) }
ReadExampleGenes == {<<GA, GX, GB>>, <<GB, <<"C">>, GA>>}
EnvRead ==
    Common \cup
    { In(TRUE, TRUE, "none", gf, <<Join(<<GeneLabel, <<"S">>, <<"T">>>>, TAB)>> \o rows, <<>>) :
        gf \in ReadExampleGenes, rows \in SeqsUpTo(ReadRows, MaxLines) } \cup
    { In(TRUE, TRUE, "none", gf, <<Join(<<GeneLabel, <<"S">>, <<"T">>>>, TAB)>> \o rows, <<>>) :
        gf \in SeqsUpTo(GeneLines, MaxGenes), rows \in SeqsUpTo(ReadRows, MaxLines) } \cup
    { In(TRUE, TRUE, "none", gf, <<GeneLabel>> \o rows, <<>>) :
        gf \in {<<GA>>, <<>>}, rows \in {<<>>} \cup {<<r>> : r \in ReadRows} }

\* Headers whose labels repeat, rows shorter and longer than the header,
\* cells that are numbers, text, empty or "nan", under tab and comma.
CellTokens == {<<"1">>, <<"0.125">>, <<"NA">>, <<"nan">>, <<>>}
SampleLabels == {<<"S">>, <<"T">>}
AggExamples ==
    { In(TRUE, TRUE, "none", <<GA>>, <<Join(<<GeneLabel>> \o h, d), Join(<<GA>> \o r, d)>>, <<>>) :
        d \in {TAB, SEMI},
        h \in { <<<<"S">>, <<"S">>>>, <<<<"S">>, <<>>, <<"S">>>> },
        r \in { <<<<"2">>, <<"4">>>>, <<<<"inf">>, <<"1">>>>, <<<<"-1">>, <<"1">>>>,
                <<<<"0">>, <<"x">>>>, <<<<"1">>, <<"1", COMMA, "2">>, <<"4">>>> } }
EnvAgg ==
    Common \cup AggExamples \cup
    { In(TRUE, TRUE, "none", <<GA>>, <<Join(<<GeneLabel>> \o h, d), Join(<<GA>> \o r, d)>>, <<>>) :
        d \in {TAB, COMMA},
        h \in SeqsUpTo(SampleLabels, MaxCols),
        r \in SeqsUpTo(CellTokens, MaxCols) }

\* Annotation headers with none, one or several gene identifier columns;
\* rows that repeat an identifier, fall short of the header or are blank.
AnnotLabels == {GeneID, <<"N">>}
AnnotFields == {GA, <<"k">>}
AnnotExampleHeaders ==
    { Join(<<<<"G", "E", "N", "E", "_", "I", "D">>, <<"N">>>>, COMMA),
      Join(<<<<"G", "e", "n", "e">>, <<"I", "D">>, <<"i", "d", "g", "e", "n", "e">>, GeneID>>, TAB),
      Join(<<<<"N">>, <<"I", "D">>, GeneID>>, SEMI) }
AnnotExampleRows ==
    { Join(<<GA, <<"k">>, <<"m">>>>, COMMA), Join(<<<<"k">>, <<"m">>, GB>>, SEMI),
      Join(<<<<"k">>, GA, GB>>, TAB) }
EnvAnnot ==
    Common \cup
    { In(TRUE, TRUE, "present", StdGenes, StdMatrix, <<h>> \o rows) :
        h \in AnnotExampleHeaders, rows \in SeqsUpTo(AnnotExampleRows, MaxAnnotRows) } \cup
    { In(TRUE, TRUE, "present", StdGenes, StdMatrix, <<Join(h, TAB)>> \o rows) :
        h \in SeqsUpTo(AnnotLabels, MaxAnnotCols),
        rows \in SeqsUpTo({Join(f, TAB) : f \in SeqsUpTo(AnnotFields, MaxAnnotCols)},
                          MaxAnnotRows) }

DelimChars == {TAB, COMMA, SEMI, "x"}

Init == \E inp \in EnvRead : Start(inp, <<>>)
InitAgg == \E inp \in EnvAgg : Start(inp, <<>>)
InitAnnot == \E inp \in EnvAnnot : Start(inp, <<>>)
InitDelim ==
    \E l \in SeqsUpTo(DelimChars, MaxLineLen) :
        Start(In(TRUE, TRUE, "none", <<>>, <<>>, <<>>), l)

Spec == Init /\ [][Next]_vars
SpecAgg == InitAgg /\ [][Next]_vars
SpecAnnot == InitAnnot /\ [][Next]_vars
SpecDelim == InitDelim /\ [][NextDelim]_vars

\* ------------------------------------------------------------ the claims

\* Where main() stands.
AfterRead ==
    pc \in {"read_annot", "annot_lines", "build_series", "build_reps", "write",
            "done", "crashed"}
AfterSeries == pc \in {"build_reps", "write", "done", "crashed"}
AfterReps == pc \in {"write", "done"}

Retained == DOMAIN expression_data

\* The fields of data line n of the matrix file (line 1 is the header).
MatrixParts(n) == split(strip(matrix_file[n]), delim)

\* C1 as stated: the retained rows never outnumber the gene set, and after
\* any data line that leaves as many retained rows as the gene set has
\* genes, no further line is read.
C1_StopsAtEquality ==
    /\ Cardinality(Retained) <= Cardinality(gene_set)
    /\ (pc = "read_lines" /\ mpos >= 2)
          => Cardinality(Retained) # Cardinality(gene_set)

\* C1, amended: the retained rows never outnumber the gene set; for a
\* non-empty gene set no line is read after the line that brings the
\* retained rows to the size of the gene set; and for every gene set, once
\* the two sizes are equal no step changes the retained rows, whatever the
\* lines that follow.
C1_EarlyStop ==
    /\ [](Cardinality(Retained) <= Cardinality(gene_set))
    /\ []((gene_set # {} /\ pc = "read_lines" /\ mpos >= 2)
             => Cardinality(Retained) # Cardinality(gene_set))
    /\ [][Cardinality(Retained) = Cardinality(gene_set)
             => expression_data' = expression_data]_vars

\* Reading stopped early: every requested gene was found and lines of the
\* matrix file are left unread.
C1_Witness ==
    /\ AfterRead
    /\ gene_set # {}
    /\ Cardinality(Retained) = Cardinality(gene_set)
    /\ mpos < Len(matrix_file)

\* C2 as stated: the row retained for a gene is the one parsed from the
\* first data line of the matrix file that carries that gene.
C2_FirstMatchWins ==
    AfterRead =>
        \A g \in Retained :
            LET first == CHOOSE n \in 2..Len(matrix_file) :
                             /\ MatrixParts(n)[1] = g
                             /\ \A k \in 2..(n - 1) : MatrixParts(k)[1] # g
            IN  expression_data[g] = ParseRow(MatrixParts(first))

\* C4: the line series names the genes of gene_list that have a row, in
\* gene_list order; the heatmap series names them in the reverse order; the
\* points of every heatmap entry follow group_order.
C4_GeneOrder ==
    AfterSeries =>
        LET kept == SelectSeq(gene_list, LAMBDA g : g \in Retained)
            n == Len(kept)
        IN  /\ Len(line_series) = n
            /\ Len(heatmap_series) = n
            /\ \A i \in 1..n :
                  /\ line_series[i].name = kept[i]
                  /\ Len(line_series[i].data) = Len(group_order)
                  /\ heatmap_series[i].name = kept[n + 1 - i]
                  /\ Len(heatmap_series[i].data) = Len(group_order)
                  /\ \A k \in 1..Len(group_order) :
                        heatmap_series[i].data[k].x = group_order[k]

\* Three requested genes, the middle one without a row, two groups.
C4_Witness ==
    /\ pc = "done"
    /\ Len(gene_list) = 3
    /\ gene_list[2] \notin Retained
    /\ Len(line_series) = 2
    /\ line_series[1].name # line_series[2].name
    /\ heatmap_series[1].name = gene_list[3]
    /\ Len(group_order) = 2

\* C7 as stated: with both required files present the run never aborts,
\* and a run that exits early lacks a required file.
C7_AlwaysCompletes ==
    /\ (matrix_exists /\ genes_exists) => pc \notin {"crashed", "exit1"}
    /\ pc = "exit1" => ~(matrix_exists /\ genes_exists)

\* The sample labels of the header line, as the claims name them: the
\* fields of the stripped first line after the first, split on its delimiter.
HeaderSamples ==
    LET header == IF matrix_file = <<>> THEN <<>> ELSE strip(matrix_file[1])
    IN  Tail(split(header, detect_delimiter(header)))

\* The positions (from 1) of idxs whose column is inside vals and not missing.
PresentAt(vals, idxs) ==
    {j \in 1..Len(idxs) : idxs[j] < Len(vals) /\ vals[idxs[j] + 1].t # "None"}

RECURSIVE SumOver(_, _, _)
SumOver(vals, idxs, js) ==
    IF js = {} THEN 0
    ELSE LET j == CHOOSE x \in js : TRUE
         IN  vals[idxs[j] + 1].v + SumOver(vals, idxs, js \ {j})

\* h (hundredths) is a nearest hundredth to num/den eighths.
NearestHundredth(h, num, den) ==
    /\ 2 * (100 * num - 8 * den * h) <= 8 * den
    /\ 2 * (8 * den * h - 100 * num) <= 8 * den

\* C3: every entry of a gene's line series is missing exactly when its
\* group has no column that is inside the row and not missing, and is
\* otherwise the mean of exactly those columns, rounded to a nearest
\* hundredth (not a number when one of them is not finite).
C3_GroupMean ==
    AfterSeries =>
        \A n \in 1..Len(line_series) :
            \A k \in 1..Len(group_order) :
                LET vals == expression_data[line_series[n].name]
                    idxs == group_to_indices[group_order[k]]
                    js == PresentAt(vals, idxs)
                    m == line_series[n].data[k]
                IN  /\ (m.t = "None") <=> (js = {})
                    /\ (js # {} /\ \A j \in js : vals[idxs[j] + 1].t = "num")
                          => /\ m.t = "num"
                             /\ NearestHundredth(m.v, SumOver(vals, idxs, js),
                                                 Cardinality(js))
                    /\ (\E j \in js : vals[idxs[j] + 1].t # "num")
                          => m.t \in {"nan", "inf"}

\* A row with one group whose cells are all missing and another group that
\* mixes a missing cell with a number other than 0.
C3_Witness ==
    /\ pc = "done"
    /\ \E n \in 1..Len(line_series) :
          \E k1, k2 \in 1..Len(group_order) :
              LET vals == expression_data[line_series[n].name]
                  i1 == group_to_indices[group_order[k1]]
                  i2 == group_to_indices[group_order[k2]]
              IN  /\ line_series[n].data[k1].t = "None"
                  /\ \E j \in 1..Len(i1) : i1[j] < Len(vals)
                  /\ line_series[n].data[k2].t = "num"
                  /\ line_series[n].data[k2].v # 0
                  /\ \E j \in 1..Len(i2) :
                        i2[j] < Len(vals) /\ vals[i2[j] + 1].t = "None"

\* C5: dot_data has one entry per gene of gene_list with a row; the entry
\* holds, in increasing r, one series "Rep r+1" for each slot r below the
\* largest group size at which some group has a column inside the row and
\* not missing; the points of a series are those groups in group_order
\* order, each with that column's value rounded to a hundredth; no series is
\* empty.
C5_ReplicateSeries ==
    AfterReps =>
        /\ DOMAIN dot_data = Range(gene_list) \cap Retained
        /\ \A g \in DOMAIN dot_data :
              LET vals == expression_data[g]
                  ser == dot_data[g]
                  col(s, r) == group_to_indices[s][r + 1]
                  has(s, r) == /\ r < Len(group_to_indices[s])
                               /\ col(s, r) < Len(vals)
                               /\ vals[col(s, r) + 1].t # "None"
                  slots == {r \in 0..Len(HeaderSamples) :
                               \E s \in DOMAIN group_to_indices : has(s, r)}
              IN  /\ {ser[i].name[2] - 1 : i \in 1..Len(ser)} = slots
                  /\ \A i \in 1..Len(ser) :
                        /\ ser[i].name[1] = "Rep"
                        /\ \A j \in 1..(i - 1) : ser[j].name[2] < ser[i].name[2]
                        /\ ser[i].data # <<>>
                        /\ LET r == ser[i].name[2] - 1
                               gs == SelectSeq(group_order, LAMBDA s : has(s, r))
                           IN  /\ Len(ser[i].data) = Len(gs)
                               /\ \A k \in 1..Len(gs) :
                                     LET v == vals[col(gs[k], r) + 1]
                                         y == ser[i].data[k].y
                                     IN  /\ ser[i].data[k].x = gs[k]
                                         /\ y.t = v.t
                                         /\ v.t = "num" =>
                                               NearestHundredth(y.v, v.v, 1)

\* A gene whose first replicate slot has no point and is left out, while
\* its second slot has points from one group only.
C5_Witness ==
    /\ pc = "done"
    /\ \E g \in DOMAIN dot_data :
          /\ Len(dot_data[g]) = 1
          /\ dot_data[g][1].name = <<"Rep", 2>>
          /\ Len(dot_data[g][1].data) = 1
          /\ Len(group_order) = 2

RECURSIVE SizeSum(_, _)
SizeSum(gti, keys) ==
    IF keys = {} THEN 0
    ELSE LET s == CHOOSE x \in keys : TRUE
         IN  Len(gti[s]) + SizeSum(gti, keys \ {s})

FirstAt(samples, s) ==
    CHOOSE i \in 1..Len(samples) :
        samples[i] = s /\ \A j \in 1..(i - 1) : samples[j] # s

\* C6: once the header is processed, sample column i is in the index list
\* of the group keyed by its label and of no other group; the group sizes
\* sum to the number of sample columns; group_order holds each distinct
\* label once, in the order of first appearance; the indices of a group
\* increase.
C6_GroupAssignment ==
    pc \notin {"verify", "exit1", "read_genes", "read_header"} =>
        LET samples == HeaderSamples
            n == Len(samples)
            gti == group_to_indices
        IN  /\ DOMAIN gti = Range(samples)
            /\ \A s \in DOMAIN gti :
                  /\ Range(gti[s]) = {i \in 0..(n - 1) : samples[i + 1] = s}
                  /\ \A j, k \in 1..Len(gti[s]) : j < k => gti[s][j] < gti[s][k]
            /\ SizeSum(gti, DOMAIN gti) = n
            /\ Range(group_order) = Range(samples)
            /\ Len(group_order) = Cardinality(Range(samples))
            /\ \A a, b \in 1..Len(group_order) :
                  a < b => FirstAt(samples, group_order[a])
                              < FirstAt(samples, group_order[b])

\* A header whose first label comes back after another label.
C6_Witness ==
    /\ pc = "done"
    /\ Len(group_order) = 2
    /\ group_to_indices[group_order[1]] = <<0, 2>>
    /\ group_to_indices[group_order[2]] = <<1>>

\* C8 as stated: every value of a retained row is a finite number or the
\* missing marker.
C8_FiniteOrMissing ==
    \A g \in Retained :
        \A i \in 1..Len(expression_data[g]) :
            expression_data[g][i].t \in {"num", "None"}

\* The fields of data line n of the annotation file (line 1 is the header).
AnnotParts(n) == split(strip(annot_lines[n]), detect_delimiter(annot_lines[n]))

\* The data lines of the annotation file with a field at gene_col.
AnnotIndexed == {n \in 2..Len(annot_lines) : Len(AnnotParts(n)) > gene_col}

\* C9: gene_col is the first header field whose lower-cased label holds
\* "gene" and "id", or 0; the index maps the field at gene_col of every
\* data row that has one to the last such row; the joined cells of a table
\* row are, for each header column but gene_col in header order, the field
\* of the gene's indexed row at that column, or empty.
C9_AnnotationJoin ==
    (annot_file /\ pc \in {"build_series", "build_reps", "write", "done", "crashed"}) =>
        LET gene == <<"g", "e", "n", "e">>
            id == <<"i", "d">>
            hits == {i \in 0..(Len(annot_headers) - 1) :
                        /\ Contains(lower(annot_headers[i + 1]), gene)
                        /\ Contains(lower(annot_headers[i + 1]), id)}
            others == SelectSeq([i \in 1..Len(annot_headers) |-> i - 1],
                                LAMBDA i : i # gene_col)
        IN  /\ hits = {} => gene_col = 0
            /\ hits # {} => gene_col \in hits /\ \A i \in hits : gene_col <= i
            /\ DOMAIN annot_data = {AnnotParts(n)[gene_col + 1] : n \in AnnotIndexed}
            /\ \A n \in AnnotIndexed :
                  (\A k \in AnnotIndexed :
                       k > n => AnnotParts(k)[gene_col + 1] # AnnotParts(n)[gene_col + 1])
                     => annot_data[AnnotParts(n)[gene_col + 1]] = AnnotParts(n)
            /\ pc = "done" =>
                  \A r \in 1..Len(table_rows) :
                      LET g == table_rows[r].gene
                          ann == table_rows[r].ann
                      IN  /\ Len(ann) = Len(others)
                          /\ \A k \in 1..Len(others) :
                                ann[k] =
                                    IF g \in DOMAIN annot_data
                                          /\ others[k] < Len(annot_data[g])
                                       THEN annot_data[g][others[k] + 1]
                                       ELSE <<>>

\* Two header fields qualify and the first is not column 0; two rows carry
\* the same identifier and differ; one table row is joined, one is not.
C9_Witness ==
    /\ pc = "done"
    /\ gene_col > 0
    /\ \E i \in (gene_col + 1)..(Len(annot_headers) - 1) :
          Contains(lower(annot_headers[i + 1]), <<"g", "e", "n", "e">>)
              /\ Contains(lower(annot_headers[i + 1]), <<"i", "d">>)
    /\ \E n, k \in AnnotIndexed :
          /\ n < k
          /\ AnnotParts(n)[gene_col + 1] = AnnotParts(k)[gene_col + 1]
          /\ AnnotParts(n) # AnnotParts(k)
    /\ \E r \in 1..Len(table_rows) : table_rows[r].gene \in DOMAIN annot_data
    /\ \E r \in 1..Len(table_rows) : table_rows[r].gene \notin DOMAIN annot_data

\* C10: detect_delimiter returns one of tab, semicolon, comma for every
\* line: tab when the line has a tab and at least as many tabs as commas,
\* else semicolon when it has one, else comma when it has one, else tab.
C10_DelimiterRule ==
    dresult # "unset" =>
        LET t == Count(dline, TAB)
            c == Count(dline, COMMA)
            m == Count(dline, SEMI)
            a == t >= 1 /\ t >= c
        IN  /\ dresult \in {TAB, SEMI, COMMA}
            /\ a => dresult = TAB
            /\ (~a /\ m >= 1) => dresult = SEMI
            /\ (~a /\ m = 0 /\ c >= 1) => dresult = COMMA
            /\ (~a /\ m = 0 /\ c = 0) => dresult = TAB

\* A line with as many tabs as commas, and a semicolon, answered with tab.
C10_Witness ==
    /\ dresult = TAB
    /\ Count(dline, TAB) = Count(dline, COMMA)
    /\ Count(dline, SEMI) >= 1

====
